---- MODULE Spec2Model ----
(***************************************************************************)
(* Static asset serving layer (package static): the asset endpoint built   *)
(* by NewAssetHandler, the schema endpoint built by NewSwaggerHandler, the *)
(* shared staticFileHandler, and the helpers openAsset, modTimeFromInfo    *)
(* and etag.                                                               *)
(*                                                                         *)
(* Strings that the code inspects are sequences of one-character strings   *)
(* (the build date, the ETag); slash-separated paths are sequences of      *)
(* their elements; file contents are sequences of bytes.                   *)
(***************************************************************************)
EXTENDS Integers, Sequences, FiniteSets, TLC

VARIABLES
    assetsPath,   \* argument of NewAssetHandler: "" selects the embedded bundle
    data,         \* the embedded file system (//go:embed data/*)
    disk,         \* the directory tree under assetsPath (os.DirFS)
    buildDate,    \* platform.GetBuildInfo().Date
    procs,        \* one record per request-handling goroutine
    fds,          \* the handles that are open, each tagged with its owner
    et            \* inputs and results of the etag evaluation

vars == <<assetsPath, data, disk, buildDate, procs, fds, et>>

---------------------------------------------------------------------------
(* Bounds of the model *)

\* longest request path, in elements
MaxSegs == 2

\* number of concurrently served requests in SpecConc
NProc == 2

\* largest file size given to etag in SpecEtag
MaxEtagSize == 11

\* largest day of the month given to etag in SpecEtag
MaxEtagDay == 12

---------------------------------------------------------------------------
(* Program constants, lines 21-37 *)

defaultFile == "index.html"

embedBaseDir == "data"

uiBaseDir == "build"

swaggerFile == "swagger.json"

\* the header value of mwSetCacheControl, line 74
CacheControlValue == "public, max-age=3600"

---------------------------------------------------------------------------
(* Paths: path.Clean, strings.TrimPrefix, filepath.Join *)

RECURSIVE CleanStep(_, _, _)
\* The element loop of path.Clean: "" and "." are dropped, ".." removes the
\* element before it, or at the start is dropped (rooted) or kept (unrooted).
CleanStep(rooted, segs, out) ==
    IF segs = <<>> THEN out
    ELSE LET s == Head(segs)
             rest == Tail(segs)
         IN  IF s = "" \/ s = "."
             THEN CleanStep(rooted, rest, out)
             ELSE IF s = ".."
             THEN IF out # <<>> /\ out[Len(out)] # ".."
                  THEN CleanStep(rooted, rest, SubSeq(out, 1, Len(out) - 1))
                  ELSE IF rooted
                  THEN CleanStep(rooted, rest, out)
                  ELSE CleanStep(rooted, rest, Append(out, ".."))
             ELSE CleanStep(rooted, rest, Append(out, s))

\* path.Clean of a path given as (rooted, elements): the elements of the
\* result. An unrooted result without elements is the string ".".
Clean(rooted, segs) ==
    LET out == CleanStep(rooted, segs, <<>>)
    IN  IF ~rooted /\ out = <<>> THEN <<".">> ELSE out

\* Lines 87-91: strings.TrimPrefix(path.Clean(r.URL.Path), "/"), with the
\* default file for the empty name. A rooted clean path loses its "/", and
\* "/" itself becomes the empty name.
assetName(url) ==
    LET name == Clean(url.rooted, url.segs)
    IN  IF name = <<>> THEN <<defaultFile>> ELSE name

\* filepath.Join(dir, name): the non-empty arguments joined by "/" and
\* cleaned; the result "." (no elements) names the root of the file system.
Join(dir, name) == CleanStep(FALSE, dir \o name, <<>>)

\* fs.ValidPath: no "." or ".." or empty element; "." alone is the root.
ValidPath(p) == \A i \in 1..Len(p) : p[i] \notin {"", ".", ".."}

IsPrefix(a, b) == Len(a) <= Len(b) /\ SubSeq(b, 1, Len(a)) = a

---------------------------------------------------------------------------
(* Time values and the build date *)

ZeroTime == [year |-> 1, month |-> 1, day |-> 1, hour |-> 0, minute |-> 0, second |-> 0]

\* time.Time.IsZero
IsZero(t) == t = ZeroTime

Digit == [c \in {"0", "1", "2", "3", "4", "5", "6", "7", "8", "9"} |->
            CASE c = "0" -> 0 [] c = "1" -> 1 [] c = "2" -> 2 [] c = "3" -> 3
              [] c = "4" -> 4 [] c = "5" -> 5 [] c = "6" -> 6 [] c = "7" -> 7
              [] c = "8" -> 8 [] c = "9" -> 9]

RECURSIVE Atoi(_)
\* the number a sequence of decimal digits denotes
Atoi(s) == IF s = <<>> THEN 0
           ELSE 10 * Atoi(SubSeq(s, 1, Len(s) - 1)) + Digit[s[Len(s)]]

RECURSIVE Itoa(_)
\* the %d verb of fmt.Sprintf for a number >= 0
Itoa(n) == IF n < 10 THEN <<CHOOSE c \in DOMAIN Digit : Digit[c] = n>>
           ELSE Itoa(n \div 10) \o Itoa(n % 10)

DaysIn(month, year) ==
    IF month = 2
    THEN (IF year % 4 = 0 /\ (year % 100 # 0 \/ year % 400 = 0) THEN 29 ELSE 28)
    ELSE IF month \in {4, 6, 9, 11} THEN 30 ELSE 31

\* Line 167: time.Parse(time.RFC3339, s) for the UTC form
\* yyyy-mm-ddThh:mm:ssZ. Any other text, and any field out of range, is a
\* parse error.
ParseRFC3339(s) ==
    LET shape == /\ Len(s) = 20
                 /\ s[5] = "-" /\ s[8] = "-" /\ s[11] = "T"
                 /\ s[14] = ":" /\ s[17] = ":" /\ s[20] = "Z"
                 /\ \A i \in {1, 2, 3, 4, 6, 7, 9, 10, 12, 13, 15, 16, 18, 19} :
                        s[i] \in DOMAIN Digit
        t == [year |-> Atoi(SubSeq(s, 1, 4)), month |-> Atoi(SubSeq(s, 6, 7)),
              day |-> Atoi(SubSeq(s, 9, 10)), hour |-> Atoi(SubSeq(s, 12, 13)),
              minute |-> Atoi(SubSeq(s, 15, 16)), second |-> Atoi(SubSeq(s, 18, 19))]
    IN  IF shape /\ t.month \in 1..12 /\ t.day \in 1..DaysIn(t.month, t.year)
           /\ t.hour < 24 /\ t.minute < 60 /\ t.second < 60
        THEN [ok |-> TRUE, t |-> t]
        ELSE [ok |-> FALSE, t |-> ZeroTime]

---------------------------------------------------------------------------
(* File systems: a set of entries, one per file or directory *)

Entry(path, kind, content, modTime) ==
    [path |-> path, kind |-> kind, content |-> content, modTime |-> modTime]

NoFile == [src |-> "none", path |-> <<>>, kind |-> "none", name |-> "",
           content |-> <<>>, size |-> 0, modTime |-> ZeroTime]

HasEntry(fsys, p) == \E e \in fsys : e.path = p

EntryAt(fsys, p) == CHOOSE e \in fsys : e.path = p

\* fs.FileInfo.Name: the last element of the path, "." for the root
BaseName(p) == IF p = <<>> THEN "." ELSE p[Len(p)]

\* The fs.File an Open returns. Files of the embedded file system report
\* the zero modification time.
Handle(src, e) ==
    [src |-> src, path |-> e.path, kind |-> e.kind, name |-> BaseName(e.path),
     content |-> e.content, size |-> Len(e.content),
     modTime |-> IF src = "embed" THEN ZeroTime ELSE e.modTime]

OpenError(p, err) == [f |-> NoFile, err |-> err, path |-> p]

\* Lines 18-19, 48, 58: embed.FS.Open. A name that is not a valid path, or
\* that names nothing, is fs.ErrNotExist; a directory opens.
embedOpen(fsys, p) ==
    IF ValidPath(p) /\ HasEntry(fsys, p)
    THEN [f |-> Handle("embed", EntryAt(fsys, p)), err |-> "", path |-> p]
    ELSE OpenError(p, "ErrNotExist")

\* Line 46: os.DirFS(assetsPath).Open. A name that is not a valid path is
\* fs.ErrInvalid; a name below a regular file is ENOTDIR; a name that is not
\* there is ENOENT; a directory opens.
dirFSOpen(fsys, p) ==
    IF ~ValidPath(p) THEN OpenError(p, "ErrInvalid")
    ELSE IF HasEntry(fsys, p)
    THEN [f |-> Handle("disk", EntryAt(fsys, p)), err |-> "", path |-> p]
    ELSE IF \E i \in 1..(Len(p) - 1) :
                /\ HasEntry(fsys, SubSeq(p, 1, i))
                /\ EntryAt(fsys, SubSeq(p, 1, i)).kind = "file"
    THEN OpenError(p, "ENOTDIR")
    ELSE OpenError(p, "ENOENT")

\* fileOpener.Open of lines 147 and 150
Open(src, fsys, p) ==
    IF src = "embed" THEN embedOpen(fsys, p) ELSE dirFSOpen(fsys, p)

\* Line 149: os.IsNotExist
IsNotExist(err) == err \in {"ErrNotExist", "ENOENT"}

\* A variant of openAsset that serves the default file for every name
openAsset_DefaultOnly(src, fsys, dir, name) ==
    LET r == Open(src, fsys, Join(dir, <<defaultFile>>))
    IN  [f |-> r.f, err |-> r.err, path |-> r.path, tried |-> <<r>>]

\* Lines 146-158: open dir/name, and dir/index.html when that failed with
\* a not-exist error. tried lists the opens in the order they were made.
openAsset(src, fsys, dir, name) ==
    LET first == Open(src, fsys, Join(dir, name))
        second == Open(src, fsys, Join(dir, <<defaultFile>>))
    IN  IF first.err # "" /\ IsNotExist(first.err)
        THEN [f |-> second.f, err |-> second.err, path |-> second.path,
              tried |-> <<first, second>>]
        ELSE [f |-> first.f, err |-> first.err, path |-> first.path,
              tried |-> <<first>>]

\* A variant of the schema open that goes through openAsset
swaggerOpen_Fallback(fsys) ==
    openAsset("embed", fsys, <<embedBaseDir, uiBaseDir>>, <<swaggerFile>>)

\* Line 58: data.Open(filepath.Join(embedBaseDir, swaggerFile))
swaggerOpen(fsys) ==
    LET r == embedOpen(fsys, Join(<<embedBaseDir>>, <<swaggerFile>>))
    IN  [f |-> r.f, err |-> r.err, path |-> r.path, tried |-> <<r>>]

\* Lines 45-49: the file system and directory NewAssetHandler hands to
\* assetHandler
assetSource(ap) == IF ap # "" THEN "disk" ELSE "embed"

assetDir(ap) == IF ap # "" THEN <<>> ELSE <<embedBaseDir, uiBaseDir>>

---------------------------------------------------------------------------
(* modTimeFromInfo and etag *)

\* A variant of modTimeFromInfo without the build time
modTimeFromInfo_NoFallback(i, date) ==
    [modTime |-> i.modTime, ok |-> TRUE, consulted |-> FALSE]

\* Lines 163-171: the file's modification time, or the parsed build date
\* when that is zero. consulted records the read of the build info.
modTimeFromInfo(i, date) ==
    IF IsZero(i.modTime)
    THEN [modTime |-> ParseRFC3339(date).t, ok |-> ParseRFC3339(date).ok,
          consulted |-> TRUE]
    ELSE [modTime |-> i.modTime, ok |-> TRUE, consulted |-> FALSE]

\* Lines 175-178: fmt.Sprintf(`"%d%d%d%d%d"`, s, mt.Day(), hour, minute, second)
etag(s, mt) ==
    <<"\"">> \o Itoa(s) \o Itoa(mt.day) \o Itoa(mt.hour) \o Itoa(mt.minute)
        \o Itoa(mt.second) \o <<"\"">>

---------------------------------------------------------------------------
(* The response writer *)

NoError == [op |-> "", path |-> <<>>, err |-> ""]

\* err.Error() of the *fs.PathError of a failed open
PathError(r) == [op |-> "open", path |-> r.path, err |-> r.err]

\* A fresh http.ResponseWriter. status 0: no header written yet. served,
\* modTime and consulted observe staticFileHandler: whether it reached
\* http.ServeContent, with which modification time, and whether
\* modTimeFromInfo read the build info.
NewResponse ==
    [status |-> 0, nwrites |-> 0, cacheControl |-> <<>>, etag |-> <<>>,
     lastModified |-> <<>>, body |-> <<>>, error |-> NoError,
     served |-> FALSE, modTime |-> ZeroTime, consulted |-> FALSE]

\* http.Error(w, msg, code): the status line and the message as the body;
\* the headers set before stay
httpError(w, msg, code) ==
    [w EXCEPT !.status = IF w.nwrites = 0 THEN code ELSE @,
              !.nwrites = @ + 1, !.error = msg]

\* A variant of mwSetCacheControl that adds nothing
mwSetCacheControl_None(w) == w

\* Line 74: w.Header().Add("Cache-Control", "public, max-age=3600")
mwSetCacheControl(w) ==
    [w EXCEPT !.cacheControl = Append(@, CacheControlValue)]

\* Line 113: f.(io.ReadSeeker). The files of os.DirFS and the regular files
\* of embed.FS can seek; a directory of embed.FS cannot.
IsReadSeeker(f) == ~(f.src = "embed" /\ f.kind = "dir")

\* Line 137: http.ServeContent(w, r, name, modtime, content). Last-Modified
\* is set from a non-zero modtime; an If-None-Match that is "*" or equals
\* the ETag set on w ends a GET or HEAD with 304 and no Last-Modified;
\* otherwise 200, with the bytes read from content unless the method is
\* HEAD. Reading a directory yields no bytes.
ServeContent(w, r, modtime, f) ==
    LET w1 == [w EXCEPT !.served = TRUE, !.modTime = modtime,
                        !.lastModified = IF IsZero(modtime) THEN <<>> ELSE <<modtime>>]
    IN  IF r.inm # <<>> /\ (r.inm = <<"*">> \/ r.inm = w1.etag)
        THEN [w1 EXCEPT !.status = 304, !.nwrites = @ + 1,
                        !.lastModified = IF w1.etag # <<>> THEN <<>> ELSE @]
        ELSE [w1 EXCEPT !.status = 200, !.nwrites = @ + 1,
                        !.body = IF r.method = "HEAD" \/ f.kind = "dir"
                                 THEN <<>> ELSE f.content]

\* Lines 111-141. statOk is the outcome of f.Stat().
staticFileHandler(f, statOk, r, w, date) ==
    IF ~IsReadSeeker(f)
    THEN httpError(w, [op |-> "", path |-> <<>>,
                       err |-> "could not open file for reading"], 500)
    ELSE IF ~statOk
    THEN httpError(w, [op |-> "stat", path |-> f.path, err |-> "EIO"], 500)
    ELSE LET mt == modTimeFromInfo(f, date)
         IN  IF ~mt.ok
             THEN httpError([w EXCEPT !.consulted = mt.consulted],
                            [op |-> "parsing time", path |-> <<>>, err |-> "ParseError"],
                            500)
             ELSE ServeContent([w EXCEPT !.etag = etag(f.size, mt.modTime),
                                         !.consulted = mt.consulted],
                               r, mt.modTime, f)

\* A variant of the deferred close that runs only after a 200
closesOnReturn_SuccessOnly(w) == w.status = 200

\* Lines 63 and 101: defer f.Close() runs whatever the response was
closesOnReturn(w) == TRUE

---------------------------------------------------------------------------
(* The bundles, directories and build dates the program is started with *)

IndexBytes == <<"I", "D", "X">>

CssBytes == <<"c">>

SwaggerBytes == <<"{", "}">>

IndexTime == [year |-> 2021, month |-> 5, day |-> 12, hour |-> 1, minute |-> 0, second |-> 0]

CssTime == [year |-> 2021, month |-> 6, day |-> 2, hour |-> 10, minute |-> 30, second |-> 15]

Dir(path, modTime) == Entry(path, "dir", <<>>, modTime)

\* The tree go:embed data/* bakes in. ui: "none" (built without assets),
\* "index" (index.html alone) or "full"; swagger: whether data/swagger.json
\* is there.
EmbedTree(ui, swagger) ==
    {Dir(<<>>, ZeroTime), Dir(<<"data">>, ZeroTime), Dir(<<"data", "build">>, ZeroTime)}
    \cup (IF ui \in {"index", "full"}
          THEN {Entry(<<"data", "build", "index.html">>, "file", IndexBytes, ZeroTime)}
          ELSE {})
    \cup (IF ui = "full"
          THEN {Dir(<<"data", "build", "static">>, ZeroTime),
                Entry(<<"data", "build", "static", "app.css">>, "file", CssBytes, ZeroTime)}
          ELSE {})
    \cup (IF swagger
          THEN {Entry(<<"data", "swagger.json">>, "file", SwaggerBytes, ZeroTime)}
          ELSE {})

\* The tree under --assets-path
DiskTree(ui) ==
    {Dir(<<>>, CssTime)}
    \cup (IF ui \in {"index", "full"}
          THEN {Entry(<<"index.html">>, "file", IndexBytes, IndexTime)}
          ELSE {})
    \cup (IF ui = "full"
          THEN {Dir(<<"static">>, CssTime),
                Entry(<<"static", "app.css">>, "file", CssBytes, CssTime)}
          ELSE {})

GoodDate == <<"2", "0", "2", "1", "-", "0", "3", "-", "0", "4", "T",
              "0", "5", ":", "0", "6", ":", "0", "7", "Z">>

BadMonthDate == <<"2", "0", "2", "1", "-", "1", "3", "-", "0", "4", "T",
                  "0", "5", ":", "0", "6", ":", "0", "7", "Z">>

\* "" is the date of a binary whose build info was never set
BuildDates == {GoodDate, BadMonthDate, <<>>}

UiLevels == {"none", "index", "full"}

\* The embedded bundle is part of every binary; the disk tree is there only
\* with a non-empty assets path.
Configs ==
    [assetsPath : {""}, data : {EmbedTree(u, sw) : u \in UiLevels, sw \in BOOLEAN},
     disk : {{}}, buildDate : BuildDates]
    \cup
    [assetsPath : {"/assets"}, data : {EmbedTree("index", sw) : sw \in BOOLEAN},
     disk : {DiskTree(u) : u \in UiLevels}, buildDate : BuildDates]

ConcConfigs ==
    [assetsPath : {""}, data : {EmbedTree("full", TRUE)}, disk : {{}},
     buildDate : {GoodDate, <<>>}]
    \cup
    [assetsPath : {"/assets"}, data : {EmbedTree("index", FALSE)},
     disk : {DiskTree("full")}, buildDate : {GoodDate}]

---------------------------------------------------------------------------
(* Requests *)

Segs == {".", "..", "index.html", "static", "app.css", "swagger.json", "nope"}

SeqsUpTo(S, n) == UNION {[1..k -> S] : k \in 0..n}

\* r.URL.Path: rooted ("/a/b") or not ("a/b", "")
Urls == [rooted : BOOLEAN, segs : SeqsUpTo(Segs, MaxSegs)]

\* If-None-Match: absent, "*", or the ETag of the disk tree's index.html
InmValues == {<<>>, <<"*">>, etag(Len(IndexBytes), IndexTime)}

Requests ==
    [endpoint : {"asset"}, url : Urls, method : {"GET", "HEAD"}, inm : InmValues]
    \cup
    [endpoint : {"swagger"}, url : {[rooted |-> TRUE, segs |-> <<>>]},
     method : {"GET", "HEAD"}, inm : InmValues]

ConcRequests ==
    [endpoint : {"asset"},
     url : {[rooted |-> TRUE, segs |-> <<>>], [rooted |-> TRUE, segs |-> <<"static">>],
            [rooted |-> TRUE, segs |-> <<"nope">>]},
     method : {"GET"}, inm : {<<>>}]
    \cup
    [endpoint : {"swagger"}, url : {[rooted |-> TRUE, segs |-> <<>>]},
     method : {"GET"}, inm : {<<>>}]

NoRequest == [endpoint |-> "none", url |-> [rooted |-> TRUE, segs |-> <<>>],
              method |-> "", inm |-> <<>>]

Idle == [pc |-> "idle", r |-> NoRequest, f |-> NoFile, statOk |-> TRUE,
         tried |-> <<>>, opens |-> 0, closes |-> 0, w |-> NewResponse]

---------------------------------------------------------------------------
(* The handlers, one action per step of a request *)

\* The server calls the handler NewAssetHandler or NewSwaggerHandler
\* returned (lines 51, 68) with a fresh response writer.
Request(p, R) ==
    /\ procs[p].pc = "idle"
    /\ \E r \in R : procs' = [procs EXCEPT ![p] = [Idle EXCEPT !.pc = "mw", !.r = r]]
    /\ UNCHANGED <<assetsPath, data, disk, buildDate, fds, et>>

\* Lines 73-75: the header, then next.ServeHTTP
MwSetCacheControl(p) ==
    /\ procs[p].pc = "mw"
    /\ procs' = [procs EXCEPT ![p].w = mwSetCacheControl(@), ![p].pc = "open"]
    /\ UNCHANGED <<assetsPath, data, disk, buildDate, fds, et>>

\* What both handlers do with the result of their open: 404 with the
\* error's text and return (lines 59-62, 97-100), or keep the handle for
\* staticFileHandler.
Opened(p, res) ==
    IF res.err # ""
    THEN /\ procs' = [procs EXCEPT ![p].w = httpError(@, PathError(res), 404),
                                   ![p].tried = res.tried, ![p].pc = "done"]
         /\ UNCHANGED fds
    ELSE /\ procs' = [procs EXCEPT ![p].f = res.f, ![p].tried = res.tried,
                                   ![p].opens = @ + 1, ![p].pc = "serve"]
         /\ fds' = fds \cup {[owner |-> p, f |-> res.f]}

\* Lines 86-100 of assetHandler
AssetOpen(p) ==
    /\ procs[p].pc = "open"
    /\ procs[p].r.endpoint = "asset"
    /\ Opened(p, openAsset(assetSource(assetsPath),
                           IF assetsPath # "" THEN disk ELSE data,
                           assetDir(assetsPath), assetName(procs[p].r.url)))
    /\ UNCHANGED <<assetsPath, data, disk, buildDate, et>>

\* Lines 57-62 of NewSwaggerHandler
SwaggerOpen(p) ==
    /\ procs[p].pc = "open"
    /\ procs[p].r.endpoint = "swagger"
    /\ Opened(p, swaggerOpen(data))
    /\ UNCHANGED <<assetsPath, data, disk, buildDate, et>>

\* Lines 65 and 103: staticFileHandler(f).ServeHTTP(w, r). f.Stat() of an
\* embedded file cannot fail; that of a file on disk can.
StaticFileHandler(p) ==
    /\ procs[p].pc = "serve"
    /\ \E ok \in (IF procs[p].f.src = "disk" THEN BOOLEAN ELSE {TRUE}) :
           procs' = [procs EXCEPT
                       ![p].statOk = ok,
                       ![p].w = staticFileHandler(procs[p].f, ok, procs[p].r, @, buildDate),
                       ![p].pc = "defer"]
    /\ UNCHANGED <<assetsPath, data, disk, buildDate, fds, et>>

\* Lines 63 and 101: the deferred f.Close(), then the handler returns
DeferClose(p) ==
    /\ procs[p].pc = "defer"
    /\ IF closesOnReturn(procs[p].w)
       THEN /\ fds' = fds \ {[owner |-> p, f |-> procs[p].f]}
            /\ procs' = [procs EXCEPT ![p].closes = @ + 1, ![p].pc = "done"]
       ELSE /\ fds' = fds
            /\ procs' = [procs EXCEPT ![p].pc = "done"]
    /\ UNCHANGED <<assetsPath, data, disk, buildDate, et>>

\* The handler has returned and the response is complete; the goroutine
\* is free for the next request.
Finish(p) ==
    /\ procs[p].pc = "done"
    /\ procs' = [procs EXCEPT ![p] = Idle]
    /\ UNCHANGED <<assetsPath, data, disk, buildDate, fds, et>>

EtIdle == [pc |-> "idle", a |-> [size |-> 0, mt |-> ZeroTime],
           b |-> [size |-> 0, mt |-> ZeroTime], ta |-> <<>>, tb |-> <<>>]

Init ==
    /\ \E c \in Configs :
        /\ assetsPath = c.assetsPath
        /\ data = c.data
        /\ disk = c.disk
        /\ buildDate = c.buildDate
    /\ procs = [p \in 1..1 |-> Idle]
    /\ fds = {}
    /\ et = EtIdle

Next ==
    \/ \E p \in DOMAIN procs : Request(p, Requests)
    \/ \E p \in DOMAIN procs : MwSetCacheControl(p)
    \/ \E p \in DOMAIN procs : AssetOpen(p)
    \/ \E p \in DOMAIN procs : SwaggerOpen(p)
    \/ \E p \in DOMAIN procs : StaticFileHandler(p)
    \/ \E p \in DOMAIN procs : DeferClose(p)
    \/ \E p \in DOMAIN procs : Finish(p)

Spec == Init /\ [][Next]_vars

\* Several requests served at once, each by its own goroutine
InitConc ==
    /\ \E c \in ConcConfigs :
        /\ assetsPath = c.assetsPath
        /\ data = c.data
        /\ disk = c.disk
        /\ buildDate = c.buildDate
    /\ procs = [p \in 1..NProc |-> Idle]
    /\ fds = {}
    /\ et = EtIdle

NextConc ==
    \/ \E p \in DOMAIN procs : Request(p, ConcRequests)
    \/ \E p \in DOMAIN procs : MwSetCacheControl(p)
    \/ \E p \in DOMAIN procs : AssetOpen(p)
    \/ \E p \in DOMAIN procs : SwaggerOpen(p)
    \/ \E p \in DOMAIN procs : StaticFileHandler(p)
    \/ \E p \in DOMAIN procs : DeferClose(p)
    \/ \E p \in DOMAIN procs : Finish(p)

SpecConc == InitConc /\ [][NextConc]_vars

\* etag applied to two (size, modification time) pairs, one after the other
EtagInputs ==
    [size : 0..MaxEtagSize,
     mt : {[IndexTime EXCEPT !.month = m, !.day = d] : m \in {5, 6}, d \in 1..MaxEtagDay}]

EtagFirst ==
    /\ et.pc = "idle"
    /\ \E a \in EtagInputs :
           et' = [et EXCEPT !.pc = "one", !.a = a, !.ta = etag(a.size, a.mt)]
    /\ UNCHANGED <<assetsPath, data, disk, buildDate, procs, fds>>

EtagSecond ==
    /\ et.pc = "one"
    /\ \E b \in EtagInputs :
           et' = [et EXCEPT !.pc = "two", !.b = b, !.tb = etag(b.size, b.mt)]
    /\ UNCHANGED <<assetsPath, data, disk, buildDate, procs, fds>>

InitEtag ==
    /\ assetsPath = "/assets"
    /\ data = EmbedTree("index", TRUE)
    /\ disk = DiskTree("full")
    /\ buildDate = GoodDate
    /\ procs = [p \in 1..1 |-> Idle]
    /\ fds = {}
    /\ et = EtIdle

NextEtag == EtagFirst \/ EtagSecond

SpecEtag == InitEtag /\ [][NextEtag]_vars

---------------------------------------------------------------------------
(* What the properties speak about *)

Done(p) == procs[p].pc = "done"

Asset(p) == procs[p].r.endpoint = "asset"

Swagger(p) == procs[p].r.endpoint = "swagger"

\* the asset source in use and its root
SourceFS == IF assetsPath # "" THEN disk ELSE data

Root == assetDir(assetsPath)

InRoot(path) == ValidPath(path) /\ IsPrefix(Root, path)

\* the place the normalized path of p's request names
Resolved(p) == Join(Root, assetName(procs[p].r.url))

Exists(p) == InRoot(Resolved(p)) /\ HasEntry(SourceFS, Resolved(p))

NamesFile(p) == Exists(p) /\ EntryAt(SourceFS, Resolved(p)).kind = "file"

NamesDir(p) == Exists(p) /\ EntryAt(SourceFS, Resolved(p)).kind = "dir"

IndexPath == Join(Root, <<defaultFile>>)

IndexExists == HasEntry(SourceFS, IndexPath) /\ EntryAt(SourceFS, IndexPath).kind = "file"

SwaggerPath == <<embedBaseDir, swaggerFile>>

\* a GET without conditional headers
PlainGet(p) == procs[p].r.method = "GET" /\ procs[p].r.inm = <<>>

\* nothing stands in the way of serving an opened file: its Stat succeeds,
\* and a modification time is at hand (the files of the embedded bundle
\* have none of their own)
Servable(p) ==
    /\ procs[p].statOk
    /\ ~IsZero(procs[p].f.modTime) \/ ParseRFC3339(buildDate).ok

---------------------------------------------------------------------------
(* Properties *)

\* C1 as stated: every request to the asset endpoint whose normalized path
\* names a file of the asset source is answered 200 with that file's bytes.
C1_ExistingFileAlways200 ==
    \A p \in DOMAIN procs :
        (Done(p) /\ Asset(p) /\ NamesFile(p))
            => /\ procs[p].w.status = 200
               /\ procs[p].w.body = EntryAt(SourceFS, Resolved(p)).content

\* C1, amended: a GET without conditional headers to the asset endpoint
\* whose normalized path names a file of the asset source, when the file's
\* Stat succeeds and its modification time is non-zero or the build date
\* parses, is answered once, 200, with that file's bytes.
C1_ExistingFileServed ==
    \A p \in DOMAIN procs :
        (Done(p) /\ Asset(p) /\ NamesFile(p) /\ PlainGet(p) /\ Servable(p))
            => /\ procs[p].w.status = 200
               /\ procs[p].w.nwrites = 1
               /\ procs[p].w.body = EntryAt(SourceFS, Resolved(p)).content

\* C1 witness: the embedded bundle's static/app.css was asked for with a
\* plain GET and served
C1_Witness ==
    \E p \in DOMAIN procs :
        /\ Done(p) /\ Asset(p) /\ NamesFile(p) /\ PlainGet(p) /\ Servable(p)
        /\ assetsPath = ""
        /\ procs[p].r.url = [rooted |-> TRUE, segs |-> <<"static", "app.css">>]
        /\ procs[p].w.status = 200
        /\ procs[p].w.body = CssBytes

\* C2: a request to the asset endpoint whose normalized path is not in the
\* asset source is answered 200 with the bytes of index.html when index.html
\* exists, and 404 when it does not. Stated for the requests most in the
\* claim's favour: a rooted path, a plain GET, nothing in the way of serving.
C2_MissingFallsBack ==
    \A p \in DOMAIN procs :
        (Done(p) /\ Asset(p) /\ procs[p].r.url.rooted /\ ~Exists(p)
         /\ PlainGet(p) /\ Servable(p))
            => IF IndexExists
               THEN /\ procs[p].w.status = 200
                    /\ procs[p].w.body = EntryAt(SourceFS, IndexPath).content
               ELSE procs[p].w.status = 404

C4_SwaggerNoFallback ==
    \A p \in DOMAIN procs :
        (Done(p) /\ Swagger(p))
            => /\ Len(procs[p].tried) = 1
               /\ procs[p].tried[1].path = SwaggerPath
               /\ procs[p].f # NoFile
                    => procs[p].f.src = "embed" /\ procs[p].f.path = SwaggerPath
               /\ ~HasEntry(data, SwaggerPath)
                    => /\ procs[p].w.status = 404
                       /\ procs[p].w.error =
                            [op |-> "open", path |-> SwaggerPath, err |-> "ErrNotExist"]
                       /\ procs[p].w.body = <<>>
                       /\ ~procs[p].w.served
                       /\ procs[p].f = NoFile

\* C4 witness: 404 from the schema endpoint although index.html is in the
\* embedded bundle and in the configured assets directory
C4_Witness ==
    \E p \in DOMAIN procs :
        /\ Done(p) /\ Swagger(p)
        /\ assetsPath # ""
        /\ IndexExists
        /\ HasEntry(data, <<embedBaseDir, uiBaseDir, defaultFile>>)
        /\ procs[p].w.status = 404

\* C5: two (size, modification time) pairs that differ in size or in
\* modification time have different ETags.
C5_EtagChanges ==
    (et.pc = "two" /\ (et.a.size # et.b.size \/ et.a.mt # et.b.mt))
        => et.ta # et.tb

\* C6: whatever the request path, with or without a leading "/", the file
\* the asset endpoint opened lies inside the configured root, or the request
\* ended in an error response. Stated for a plain GET.
C6_NoTraversal ==
    \A p \in DOMAIN procs :
        (Done(p) /\ Asset(p) /\ PlainGet(p) /\ procs[p].f # NoFile)
            => InRoot(procs[p].f.path) \/ procs[p].w.status \notin {200, 304}

\* C7: when a file is served, the modification time given to
\* http.ServeContent and to etag is the parsed build date if the file's own
\* is zero, and otherwise the file's own, without a read of the build info;
\* a 200 carries it as Last-Modified.
C7_ModTimeFallback ==
    \A p \in DOMAIN procs :
        procs[p].w.served
            => LET f == procs[p].f
                   w == procs[p].w
                   used == IF IsZero(f.modTime) THEN ParseRFC3339(buildDate).t
                           ELSE f.modTime
               IN  /\ w.modTime = used
                   /\ w.etag = etag(f.size, used)
                   /\ w.consulted = IsZero(f.modTime)
                   /\ IsZero(f.modTime) => ParseRFC3339(buildDate).ok
                   /\ (w.status = 200 /\ ~IsZero(used)) => w.lastModified = <<used>>

\* C7 witness: an embedded file served with the build date
\* 2021-03-04T05:06:07Z as its modification time
C7_Witness ==
    \E p \in DOMAIN procs :
        /\ procs[p].w.served
        /\ procs[p].f.src = "embed"
        /\ IsZero(procs[p].f.modTime)
        /\ procs[p].w.status = 200
        /\ procs[p].w.modTime = [year |-> 2021, month |-> 3, day |-> 4,
                                 hour |-> 5, minute |-> 6, second |-> 7]
        /\ procs[p].w.lastModified = <<procs[p].w.modTime>>
        /\ procs[p].w.etag = <<"\"", "3", "4", "5", "6", "7", "\"">>

\* C8: a request to the asset endpoint whose normalized path names a
\* directory is answered like one for a missing file: with index.html, 200,
\* when index.html exists. Stated for a rooted path and a plain GET with
\* nothing in the way of serving.
C8_DirectoryFallsBack ==
    \A p \in DOMAIN procs :
        (Done(p) /\ Asset(p) /\ procs[p].r.url.rooted /\ NamesDir(p) /\ IndexExists
         /\ PlainGet(p) /\ Servable(p))
            => /\ procs[p].w.status = 200
               /\ procs[p].w.body = EntryAt(SourceFS, IndexPath).content

\* C9: a request opens at most one handle and closes it exactly once before
\* its handler returns; a handle is open only while its request is between
\* the open and the return, whatever the other requests do.
C9_HandlesClosed ==
    \A p \in DOMAIN procs :
        LET mine == {h \in fds : h.owner = p}
        IN  /\ procs[p].opens <= 1
            /\ procs[p].closes <= procs[p].opens
            /\ Cardinality(mine) = procs[p].opens - procs[p].closes
            /\ mine # {} => procs[p].pc \in {"serve", "defer"}
            /\ Done(p) => procs[p].closes = procs[p].opens /\ mine = {}
            /\ (Done(p) /\ procs[p].w.status # 404) => procs[p].closes = 1

\* C9 witness: one request has returned after a 500 with its handle closed
\* while another still holds its handle open
C9_Witness ==
    \E p, q \in DOMAIN procs :
        /\ p # q
        /\ Done(p) /\ procs[p].w.status = 500
        /\ procs[p].opens = 1 /\ procs[p].closes = 1
        /\ procs[q].pc = "serve"
        /\ \E h \in fds : h.owner = q

\* C10: a finished request has exactly one response; a 404 of the asset
\* endpoint means that the requested name and index.html are both absent;
\* a handle that cannot seek, a failed Stat and an unparsable build date for
\* a zero modification time give 500; index.html is opened as a fallback
\* only after a not-found. Stated for rooted paths.
C10_StatusTaxonomy ==
    \A p \in DOMAIN procs :
        (Done(p) /\ procs[p].r.url.rooted)
            => /\ procs[p].w.nwrites = 1
               /\ procs[p].w.status \in {200, 304, 404, 500}
               /\ (Asset(p) /\ procs[p].w.status = 404)
                    => ~HasEntry(SourceFS, Resolved(p)) /\ ~IndexExists
               /\ (procs[p].f # NoFile /\ (~IsReadSeeker(procs[p].f) \/ ~Servable(p)))
                    => procs[p].w.status = 500
               /\ Len(procs[p].tried) = 2 => IsNotExist(procs[p].tried[1].err)

====
